---- MODULE Spec2Model ----
(***************************************************************************)
(* Scent Mood Matcher (src/app.py): one Streamlit script run after the     *)
(* other.  A run reads the sidebar, and when the generate button was       *)
(* pressed it calls get_ai_recommendation, displays the record, saves it   *)
(* with save_to_supabase and offers the download; every run that does not  *)
(* stop on an uncaught exception then renders the history panel and the    *)
(* footer.                                                                 *)
(*                                                                         *)
(* Python values: a str is <<"str", tokens>> (tokens: a sequence of word   *)
(* and blank tokens), any other JSON value is <<"num", tokens>>.  A dict   *)
(* is a function from its keys.  None and a dict are told apart by a tag.  *)
(* A reply text is a sequence over "{", "}", "p" (a prose character) and   *)
(* "f" (the member list of the reply, "name": ..., held in .members).      *)
(***************************************************************************)
EXTENDS Integers, Sequences, FiniteSets, TLC

VARIABLES
  pc,              \* where the script run is: col1, handler, col2, done, crashed
  mood,            \* the sidebar's selectbox
  product_type,    \* the sidebar's radio
  generate_btn,    \* whether this run was started by the generate button
  response,        \* what requests.post came back with in this run
  recommendation,  \* what get_ai_recommendation returned in this run
  candidate,       \* the argument json.loads was called with in this run
  posts,           \* requests.post calls of this run
  bodyRead,        \* whether this run read the body of the response
  shown,           \* what this run rendered in col1, in order
  panel,           \* what this run rendered in col2, in order
  historyOk,       \* the outcome of this run's history query
  inserts,         \* rows this run inserted
  saveCalls,       \* insert attempts of this run
  table,           \* fragrance_recommendations, in insertion order
  now              \* the clock datetime.utcnow() reads, in ticks

vars == <<pc, mood, product_type, generate_btn, response, recommendation,
          candidate, posts, bodyRead, shown, panel, historyOk, inserts,
          saveCalls, table, now>>

----------------------------------------------------------------------------
(* Bounds of the model *)

\* generate triggers per behaviour (each one advances the clock)
MaxRuns == 2
\* longest reply text drawn exhaustively in a full run
RunTextLen == 2
\* longest reply text drawn for the extraction alone
MaxTextLen == 5
\* clock ticks per calendar day
TicksPerDay == 2

----------------------------------------------------------------------------
(* Program constants *)

Moods == {"relaxed", "energized", "romantic"}

ProductTypes == {"candle", "body butter", "perfume blend"}

HistoryLimit == 5

\* the sidebar selections drawn: every mood and every product type once
SidebarChoices ==
  {<<"relaxed", "candle">>, <<"energized", "body butter">>,
   <<"romantic", "perfume blend">>}

StatusOk == 200

Required == {"name", "description", "blend_formula", "best_time"}

----------------------------------------------------------------------------
(* Python values *)

Str(s) == <<"str", s>>

Num == <<"num", <<"5">>>>

IsStr(v) == v[1] = "str"

None == [tag |-> "None"]

Dict(d) == [tag |-> "dict", d |-> d]

EmptyDict == [k \in {} |-> Num]

\* bool(x) of a dict or None
Truthy(v) == v.tag = "dict" /\ DOMAIN v.d # {}

\* {**a, **b}: the keys of b win
Merge(a, b) ==
  [k \in DOMAIN a \cup DOMAIN b |-> IF k \in DOMAIN b THEN b[k] ELSE a[k]]

Without(d, k) == [x \in DOMAIN d \ {k} |-> d[x]]

\* str.replace(' ', '_')
Replace(s) == [i \in 1..Len(s) |-> IF s[i] = " " THEN "_" ELSE s[i]]

----------------------------------------------------------------------------
(* Replies of the AI service *)

Alphabet == {"{", "}", "p", "f"}

Texts(n) == UNION {[1..k -> Alphabet] : k \in 0..n}

Full ==
  [name |-> Str(<<"Calm", " ", "Breeze">>), description |-> Str(<<"x">>),
   blend_formula |-> Str(<<"1:2:3">>), best_time |-> Str(<<"evening">>)]

ReplyObjects ==
  {Full}
    \cup {Without(Full, k) : k \in Required}
    \cup {[Full EXCEPT ![k] = v] : k \in Required, v \in {Str(<<>>), Num}}
    \cup {Merge(Full, [mood |-> Str(<<"moody">>)]),
          Merge(Full, [product_type |-> Str(<<"soap">>)])}

Raise == [kind |-> "raise", status |-> 0, hasText |-> FALSE, text |-> <<>>,
          members |-> Full]

Http(s, h, t, m) ==
  [kind |-> "http", status |-> s, hasText |-> h, text |-> t, members |-> m]

NoResponse == [kind |-> "none", status |-> 0, hasText |-> FALSE, text |-> <<>>,
               members |-> Full]

\* the reply that is the object alone, and the object wrapped in prose
ObjectTexts == {<<"{", "f", "}">>, <<"p", "{", "f", "}", "p">>}

\* replies between braces that are no JSON
BrokenTexts == {<<"{", "p", "}">>, <<"p", "{", "f", "p", "}">>}

RunReplies ==
  {Raise, Http(500, FALSE, <<>>, Full), Http(500, TRUE, <<"{", "f", "}">>, Full),
   Http(StatusOk, FALSE, <<>>, Full)}
    \cup {Http(StatusOk, TRUE, t, Full) : t \in Texts(RunTextLen) \cup BrokenTexts}
    \cup {Http(StatusOk, TRUE, t, m) : t \in ObjectTexts, m \in ReplyObjects}

ExtractReplies == {Http(StatusOk, TRUE, t, Full) : t \in Texts(MaxTextLen)}

----------------------------------------------------------------------------
(* get_ai_recommendation *)

\* str.find: 0-based index of the first c, -1 when there is none
Find(s, c) ==
  IF \E i \in 1..Len(s) : s[i] = c
  THEN (CHOOSE i \in 1..Len(s) : s[i] = c /\ \A j \in 1..(i - 1) : s[j] # c) - 1
  ELSE -1

\* str.rfind: 0-based index of the last c, -1 when there is none
RFind(s, c) ==
  IF \E i \in 1..Len(s) : s[i] = c
  THEN (CHOOSE i \in 1..Len(s) : s[i] = c /\ \A j \in (i + 1)..Len(s) : s[j] # c) - 1
  ELSE -1

\* text[a:b] for 0 <= a, 0 <= b
Slice(s, a, b) == SubSeq(s, a + 1, IF b > Len(s) THEN Len(s) ELSE b)

JsonStart(text) == Find(text, "{")

\* a slip: the end index without the + 1
JsonEndExclusive(text) == RFind(text, "}")

JsonEnd(text) == RFind(text, "}") + 1

HasCandidate(text) == JsonStart(text) # -1 /\ JsonEnd(text) > JsonStart(text)

NoCandidate == [given |-> FALSE, text |-> <<>>]

Candidate(text) ==
  IF HasCandidate(text)
  THEN [given |-> TRUE, text |-> Slice(text, JsonStart(text), JsonEnd(text))]
  ELSE NoCandidate

\* json.loads of a token sequence: "{" "}" is the empty object, "{" "f" "}"
\* the object of the reply's members; anything else raises
JsonLoads(c, members) ==
  IF c = <<"{", "}">> THEN [ok |-> TRUE, value |-> Dict(EmptyDict)]
  ELSE IF c = <<"{", "f", "}">> THEN [ok |-> TRUE, value |-> Dict(members)]
  ELSE [ok |-> FALSE, value |-> None]

Error(msg) == [kind |-> "error", body |-> Str(<<msg>>)]

\* a slip: the status is not looked at
ReadsBodyAnyStatus(r) == r.kind = "http"

\* whether the body of the response is read
ReadsBody(r) == r.kind = "http" /\ r.status = StatusOk

\* the argument of json.loads, when it is called
ParserInput(r) ==
  IF ReadsBody(r) /\ r.hasText THEN Candidate(r.text) ELSE NoCandidate

\* the return value and the messages of get_ai_recommendation
AiResult(r) ==
  IF r.kind = "raise" THEN [ret |-> None, out |-> <<Error("AI API Error")>>]
  ELSE IF ~ReadsBody(r) THEN [ret |-> None, out |-> <<>>]
  ELSE IF ~r.hasText THEN [ret |-> None, out |-> <<Error("AI API Error")>>]
  ELSE IF ~ParserInput(r).given THEN [ret |-> None, out |-> <<>>]
  ELSE LET p == JsonLoads(ParserInput(r).text, r.members)
       IN  IF p.ok THEN [ret |-> p.value, out |-> <<>>]
           ELSE [ret |-> None, out |-> <<Error("AI API Error")>>]

\* requests.post calls made by one get_ai_recommendation
HttpRequests(r) == 1

----------------------------------------------------------------------------
(* The generate handler *)

El(kind, body) == [kind |-> kind, body |-> body]

Label(msg) == El("markdown", Str(<<msg>>))

\* one display call on recommendation[key], after the labels before it;
\* a missing key raises KeyError once the labels are out
ShowKey(acc, d, labels, kind, key) ==
  IF acc.raised THEN acc
  ELSE IF key \notin DOMAIN d THEN [out |-> acc.out \o labels, raised |-> TRUE]
  ELSE [out |-> acc.out \o labels \o <<El(kind, d[key])>>, raised |-> FALSE]

\* lines 156-167
Display(d) ==
  LET a0 == [out |-> <<El("success", Str(<<"Recommendation Generated!">>)),
                       Label("---")>>,
             raised |-> FALSE]
      a1 == ShowKey(a0, d, <<>>, "subheader", "name")
      a2 == ShowKey(a1, d, <<>>, "markdown", "description")
      a3 == ShowKey(a2, d, <<Label("Blend Formula:")>>, "info", "blend_formula")
  IN  ShowKey(a3, d, <<Label("Best Time to Use:")>>, "write", "best_time")

\* lines 170-174
DataToSave(m, p, d) ==
  Merge([mood |-> Str(<<m>>), product_type |-> Str(<<p>>)], d)

\* datetime.isoformat(): the calendar date, then the time of day
IsoFormat(t) == <<t \div TicksPerDay, t % TicksPerDay>>

\* the row of lines 92-100
Row(data, t) ==
  [mood |-> data["mood"], product_type |-> data["product_type"],
   product_name |-> data["name"], description |-> data["description"],
   blend_formula |-> data["blend_formula"], best_time |-> data["best_time"],
   created_at |-> IsoFormat(t)]

\* save_to_supabase: ok is the outcome of the insert at the store
SaveToSupabase(data, ok, t) ==
  IF Required \cup {"mood", "product_type"} \subseteq DOMAIN data /\ ok
  THEN [result |-> TRUE, rows |-> <<Row(data, t)>>, out |-> <<>>]
  ELSE [result |-> FALSE, rows |-> <<>>, out |-> <<Error("Database Error")>>]

\* lines 180-185: the name must be a str for .replace
Download(d, data) ==
  IF IsStr(d["name"])
  THEN [out |-> <<[kind |-> "download", body |-> Str(Replace(d["name"][2]) \o <<".json">>),
                   data |-> data]>>,
        raised |-> FALSE]
  ELSE [out |-> <<>>, raised |-> TRUE]

\* lines 155-185 for a truthy recommendation d
Handle(m, p, d, ok, t) ==
  LET shownRec == Display(d)
      data == DataToSave(m, p, d)
      save == SaveToSupabase(data, ok, t)
      saved == IF save.result
               THEN <<El("success", Str(<<"Saved to your collection!">>))>>
               ELSE <<>>
      dl == Download(d, data)
  IN  IF shownRec.raised
      THEN [out |-> shownRec.out, raised |-> TRUE, rows |-> <<>>, calls |-> 0]
      ELSE [out |-> shownRec.out \o save.out \o saved \o dl.out,
            raised |-> dl.raised, rows |-> save.rows, calls |-> 1]

Uncaught == [kind |-> "exception", body |-> Str(<<"Traceback">>)]

----------------------------------------------------------------------------
(* The history panel *)

\* a slip: ascending order
NotAfter(a, b) == a[1] < b[1] \/ (a[1] = b[1] /\ a[2] <= b[2])

\* created_at a is later than or equal to b
NotBefore(a, b) == a[1] > b[1] \/ (a[1] = b[1] /\ a[2] >= b[2])

Min(a, b) == IF a < b THEN a ELSE b

\* order("created_at", desc=True): the orders the store may return
Orderings(t) ==
  {f \in [1..Len(t) -> 1..Len(t)] :
     /\ \A i, j \in 1..Len(t) : i # j => f[i] # f[j]
     /\ \A i, j \in 1..Len(t) :
          i < j => NotBefore(t[f[i]].created_at, t[f[j]].created_at)}

\* select("*").order("created_at", desc=True).limit(5)
Recent(t) ==
  {[i \in 1..Min(Len(t), HistoryLimit) |-> t[f[i]]] : f \in Orderings(t)}

Empty == El("info", Str(<<"No recommendations yet. Create your first blend!">>))

\* lines 196-198 for one row; created_at[:10] is the date
Entry(item) ==
  [kind |-> "expander", body |-> item.product_name, mood |-> item.mood,
   type |-> item.product_type, created |-> item.created_at[1]]

\* a slip: the except branch reports the failure
HistoryReportsFailure(ok, h) ==
  <<El("subheader", Str(<<"Your History">>))>>
    \o (IF ~ok THEN <<Error("Database Error")>>
        ELSE IF h # <<>> THEN [i \in 1..Len(h) |-> Entry(h[i])] ELSE <<Empty>>)

\* lines 188-202: ok is the outcome of the query, h the rows it returns
History(ok, h) ==
  <<El("subheader", Str(<<"Your History">>))>>
    \o (IF ok /\ h # <<>> THEN [i \in 1..Len(h) |-> Entry(h[i])] ELSE <<Empty>>)

----------------------------------------------------------------------------
(* Script runs *)

Init ==
  /\ pc = "col1"
  /\ mood = "relaxed"
  /\ product_type = "candle"
  /\ generate_btn = FALSE
  /\ response = NoResponse
  /\ recommendation = None
  /\ candidate = NoCandidate
  /\ posts = 0
  /\ bodyRead = FALSE
  /\ shown = <<>>
  /\ panel = <<>>
  /\ historyOk = "none"
  /\ inserts = 0
  /\ saveCalls = 0
  /\ table = <<>>
  /\ now = 0

\* a new script run starts: the state of the last run is gone
Rerun(m, p, b) ==
  /\ pc \in {"done", "crashed"}
  /\ pc' = "col1"
  /\ mood' = m
  /\ product_type' = p
  /\ generate_btn' = b
  /\ response' = NoResponse
  /\ recommendation' = None
  /\ candidate' = NoCandidate
  /\ posts' = 0
  /\ bodyRead' = FALSE
  /\ shown' = <<>>
  /\ panel' = <<>>
  /\ historyOk' = "none"
  /\ inserts' = 0
  /\ saveCalls' = 0
  /\ UNCHANGED <<table, now>>

\* the user changes a sidebar widget
SelectSidebar ==
  \E c \in SidebarChoices : Rerun(c[1], c[2], FALSE)

\* the user presses the generate button
PressGenerate ==
  /\ now < MaxRuns
  /\ Rerun(mood, product_type, TRUE)

\* lines 131-153: the notes, then get_ai_recommendation; the round trip takes
\* a tick of the clock
GetAiRecommendation(replies) ==
  /\ pc = "col1"
  /\ generate_btn
  /\ \E r \in replies :
       /\ response' = r
       /\ posts' = posts + HttpRequests(r)
       /\ bodyRead' = ReadsBody(r)
       /\ candidate' = ParserInput(r)
       /\ recommendation' = AiResult(r).ret
       /\ shown' = shown \o <<El("notes", Str(<<mood>>))>> \o AiResult(r).out
  /\ now' = now + 1
  /\ pc' = "handler"
  /\ UNCHANGED <<mood, product_type, generate_btn, panel, historyOk, inserts,
                 saveCalls, table>>

\* lines 155-185
Handler ==
  /\ pc = "handler"
  /\ IF ~Truthy(recommendation)
     THEN /\ pc' = "col2"
          /\ UNCHANGED <<shown, inserts, saveCalls, table>>
     ELSE \E ok \in BOOLEAN :
            LET h == Handle(mood, product_type, recommendation.d, ok, now)
            IN  /\ pc' = IF h.raised THEN "crashed" ELSE "col2"
                /\ shown' = shown \o h.out \o (IF h.raised THEN <<Uncaught>> ELSE <<>>)
                /\ inserts' = inserts + Len(h.rows)
                /\ saveCalls' = saveCalls + h.calls
                /\ table' = table \o h.rows
  /\ UNCHANGED <<mood, product_type, generate_btn, response, recommendation,
                 candidate, posts, bodyRead, panel, historyOk, now>>

\* line 131 with the button not pressed
SkipGenerate ==
  /\ pc = "col1"
  /\ ~generate_btn
  /\ pc' = "col2"
  /\ UNCHANGED <<mood, product_type, generate_btn, response, recommendation,
                 candidate, posts, bodyRead, shown, panel, historyOk, inserts,
                 saveCalls, table, now>>

\* lines 187-206: the history panel and the footer end the run
HistoryPanel ==
  /\ pc = "col2"
  /\ \E ok \in BOOLEAN, h \in Recent(table) :
       /\ panel' = History(ok, h)
       /\ historyOk' = IF ok THEN "ok" ELSE "failed"
  /\ pc' = "done"
  /\ UNCHANGED <<mood, product_type, generate_btn, response, recommendation,
                 candidate, posts, bodyRead, shown, inserts, saveCalls, table, now>>

Next ==
  \/ SelectSidebar
  \/ PressGenerate
  \/ GetAiRecommendation(RunReplies)
  \/ Handler
  \/ SkipGenerate
  \/ HistoryPanel

Spec == Init /\ [][Next]_vars

\* get_ai_recommendation alone, on every reply text up to MaxTextLen
InitExtract ==
  /\ pc = "col1"
  /\ \E c \in SidebarChoices : mood = c[1] /\ product_type = c[2]
  /\ generate_btn = TRUE
  /\ response = NoResponse
  /\ recommendation = None
  /\ candidate = NoCandidate
  /\ posts = 0
  /\ bodyRead = FALSE
  /\ shown = <<>>
  /\ panel = <<>>
  /\ historyOk = "none"
  /\ inserts = 0
  /\ saveCalls = 0
  /\ table = <<>>
  /\ now = 0

NextExtract == GetAiRecommendation(ExtractReplies)

SpecExtract == InitExtract /\ [][NextExtract]_vars

\* the shape of the state
TypeOK ==
  /\ pc \in {"col1", "handler", "col2", "done", "crashed"}
  /\ mood \in Moods
  /\ product_type \in ProductTypes
  /\ generate_btn \in BOOLEAN
  /\ historyOk \in {"none", "ok", "failed"}
  /\ posts \in 0..1
  /\ inserts \in 0..1
  /\ saveCalls \in 0..1
  /\ now \in 0..MaxRuns
  /\ Len(table) <= now

----------------------------------------------------------------------------
(* What the claims speak of, stated from the reply and the screen *)

\* get_ai_recommendation has returned in this run
Attempted == generate_btn /\ response.kind # "none"

\* the generate block of this run is over
BlockOver == pc \in {"col2", "done", "crashed"}

RunOver == pc \in {"done", "crashed"}

Opens(t) == {i \in 1..Len(t) : t[i] = "{"}

Closes(t) == {i \in 1..Len(t) : t[i] = "}"}

FirstOpen(t) == CHOOSE i \in Opens(t) : \A j \in Opens(t) : i <= j

LastClose(t) == CHOOSE i \in Closes(t) : \A j \in Closes(t) : j <= i

Extractable(t) ==
  Opens(t) # {} /\ Closes(t) # {} /\ LastClose(t) > FirstOpen(t)

Between(t) == SubSeq(t, FirstOpen(t), LastClose(t))

IsJson(c) == c \in {<<"{", "}">>, <<"{", "f", "}">>}

ObjectOf(r) == IF Between(r.text) = <<"{", "}">> THEN EmptyDict ELSE r.members

\* all four keys, each a non-empty str
Valid(d) == \A k \in Required : k \in DOMAIN d /\ IsStr(d[k]) /\ d[k][2] # <<>>

GoodReply(r) ==
  /\ r.kind = "http" /\ r.status = 200 /\ r.hasText
  /\ Extractable(r.text) /\ IsJson(Between(r.text)) /\ Valid(ObjectOf(r))

GenerationFailed == Attempted /\ ~GoodReply(response)

SaveFailed == saveCalls > inserts

FieldKind(k) ==
  CASE k = "name" -> "subheader"
    [] k = "description" -> "markdown"
    [] k = "blend_formula" -> "info"
    [] k = "best_time" -> "write"

\* col1 shows the recommendation's value for key k
ShownField(k) ==
  /\ recommendation.tag = "dict"
  /\ k \in DOMAIN recommendation.d
  /\ \E i \in 1..Len(shown) :
       shown[i].kind = FieldKind(k) /\ shown[i].body = recommendation.d[k]

HasKind(out, kinds) == \E i \in 1..Len(out) : out[i].kind \in kinds

LastRow == table[Len(table)]

EmptyPanel ==
  <<[kind |-> "subheader", body |-> <<"str", <<"Your History">>>>],
    [kind |-> "info",
     body |-> <<"str", <<"No recommendations yet. Create your first blend!">>>>]>>

----------------------------------------------------------------------------
(* The claims *)

\* C1: get_ai_recommendation returns a record only for a reply whose JSON
\* object holds all four keys with non-empty str values; any other reply
\* returns None, never a partial record.
C1_OnlyValidRecords ==
  (Attempted /\ ~GoodReply(response)) => recommendation = None

\* C2: when the generation attempt failed (status, exception, no JSON,
\* unparsable JSON, missing or empty required field), the run displays no
\* part of a recommendation and inserts no row.
C2_FailedAttemptLeavesNothing ==
  (BlockOver /\ GenerationFailed)
    => /\ inserts = 0
       /\ \A k \in Required : ~ShownField(k)
       /\ ~HasKind(shown, {"download"})

\* C3: every failed generation attempt and every failed save shows at least
\* one error message before the run ends.
C3_EveryFailureHasMessage ==
  (RunOver /\ (GenerationFailed \/ SaveFailed))
    => HasKind(shown, {"error", "exception"})

\* C4: no reply of the AI service and no outcome of the store ends a script
\* run with an uncaught exception.
C4_NoUncaughtException == pc # "crashed"

\* C5: on status 200 json.loads is given exactly the text from the first "{"
\* to the last "}" inclusive; with no "{", no "}" or the last "}" before the
\* first "{" it is not called and the result is None.
C5_CandidateIsFirstToLastBrace ==
  (Attempted /\ response.kind = "http" /\ response.status = 200 /\ response.hasText)
    => IF Extractable(response.text)
       THEN candidate = [given |-> TRUE, text |-> Between(response.text)]
       ELSE ~candidate.given /\ recommendation = None

C5_Witness ==
  /\ Attempted
  /\ candidate.given
  /\ Len(candidate.text) = 3
  /\ Len(response.text) = 5
  /\ response.text[1] = "}"

\* C6: a run started by the generate button makes exactly one HTTP request,
\* and on a non-success status the body is not read, nothing is extracted
\* and the result is None.
C6_NonSuccessReadsNothing ==
  /\ (generate_btn /\ pc # "col1") => posts = 1
  /\ (Attempted /\ response.kind = "http" /\ response.status # 200)
       => recommendation = None /\ ~bodyRead /\ ~candidate.given

C6_Witness ==
  /\ pc = "done"
  /\ response.kind = "http"
  /\ response.status = 500
  /\ response.hasText

\* C7: when get_ai_recommendation returned a record and the insert failed,
\* the four fields are displayed, the download is offered and the insert was
\* attempted once.
C7_SaveFailureKeepsRecord ==
  (BlockOver /\ SaveFailed)
    => /\ \A k \in Required : ShownField(k)
       /\ HasKind(shown, {"download"})
       /\ saveCalls = 1

\* C8: a history query that succeeds after a save lists first the row saved
\* last: its product_name, mood and product_type.
C8_SavedRowHeadsHistory ==
  (pc = "done" /\ historyOk = "ok" /\ table # <<>>)
    => /\ panel[2].kind = "expander"
       /\ panel[2].body = LastRow.product_name
       /\ panel[2].mood = LastRow.mood
       /\ panel[2].type = LastRow.product_type

C8_Witness ==
  /\ pc = "done"
  /\ historyOk = "ok"
  /\ inserts = 1
  /\ Len(table) = 2
  /\ table[1].product_name # table[2].product_name
  /\ table[1].mood # table[2].mood

\* C9: a history query that raises is shown exactly as an empty history: the
\* empty-state message of a store without rows, no error, no entry, and the
\* run completes.
C9_FailedQueryLooksEmpty ==
  /\ historyOk = "failed" => (pc = "done" /\ panel = EmptyPanel)
  /\ (historyOk = "ok" /\ table = <<>>) => panel = EmptyPanel

C9_Witness ==
  /\ historyOk = "failed"
  /\ inserts = 1
  /\ Len(table) = 2

\* C10: the row inserted by a run carries the mood and the product type
\* selected in the sidebar, whatever keys the reply's object has.
C10_RowCarriesSelection ==
  inserts = 1
    => /\ LastRow.mood = <<"str", <<mood>>>>
       /\ LastRow.product_type = <<"str", <<product_type>>>>

====
